---- MODULE Spec2Model ----
(***************************************************************************)
(* A model of the Simple Ollama GUI Client: the OllamaChat session object  *)
(* (configuration, conversation log, persistence) and the request          *)
(* pipeline of OllamaChat.chat, with the GUI handlers that drive them.     *)
(*                                                                         *)
(* Conventions.  A Python string is a sequence of tokens, so that string   *)
(* concatenation is \o and the empty string is <<>>.  A float is the       *)
(* token Python prints for it ("0.5", "nan", "inf").  A file name is the   *)
(* sequence of its dot-separated components (<<"a", "json">> is a.json),   *)
(* all files living in save_dir.  A dict is a function whose DOMAIN is     *)
(* its key set.                                                            *)
(***************************************************************************)
EXTENDS Integers, Sequences, FiniteSets, TLC

VARIABLES
    base_url,           \* OllamaChat.base_url
    api_generate,       \* OllamaChat.api_generate
    api_models,         \* OllamaChat.api_models
    model,              \* OllamaChat.model
    system_prompt,      \* OllamaChat.system_prompt
    parameters,         \* OllamaChat.parameters
    conversation,       \* OllamaChat.conversation
    chat_name,          \* OllamaChat.chat_name
    config,             \* the durable config, config.ini
    fs,                 \* the files of save_dir: file name -> contents
    current_file_path,  \* OllamaChatGUI.current_file_path
    calls,              \* the requests under way: chat calls, liveness probes
    send_button,        \* OllamaChatGUI.send_button: its state option
    last                \* the operation that returned most recently

vars == <<base_url, api_generate, api_models, model, system_prompt, parameters,
          conversation, chat_name, config, fs, current_file_path, calls,
          send_button, last>>

ollama == <<base_url, api_generate, api_models, model, system_prompt,
            parameters, conversation, chat_name>>

-----------------------------------------------------------------------------
(* Bounds of the exploration.                                              *)

MaxLog == 2
MaxLines == 2
MaxProbes == 2
MaxSends == 2

-----------------------------------------------------------------------------
(* Values.                                                                 *)

None == <<"None">>
EmptyStr == <<>>

DefaultBaseUrl == <<"http://localhost:11434">>
DefaultModel == <<"llama3.2">>
SaveDir == <<"chat_history">>

ParamKeys == {"temperature", "top_p", "top_k", "max_tokens"}

PyFloat(r) == [t |-> "float", r |-> r]
PyInt(r) == [t |-> "int", r |-> r]
PyStr(r) == [t |-> "str", r |-> r]

DefaultParameters ==
    [k \in ParamKeys |->
        CASE k = "temperature" -> PyFloat("0.7")
          [] k = "top_p" -> PyFloat("0.9")
          [] k = "top_k" -> PyInt("40")
          [] k = "max_tokens" -> PyInt("2000")]

Exchange(user, assistant) == [user |-> user, assistant |-> assistant]

\* The session fields that load, save and the setters read or write.
Session ==
    [model |-> model, system_prompt |-> system_prompt, parameters |-> parameters,
     conversation |-> conversation, chat_name |-> chat_name]

Pre == [session |-> Session, fs |-> fs, config |-> config,
        current_file_path |-> current_file_path]

-----------------------------------------------------------------------------
(* OllamaChat.chat.                                                        *)

Prompts == {<<"p1">>, <<"p2">>}
DeltaTexts == {<<"A">>, <<"B">>}

\* What the server can put on one line of a streamed response body.
DeltaLine(d) == [kind |-> "delta", response |-> d]
BlankLine == [kind |-> "blank", response |-> EmptyStr]
NoFieldLine == [kind |-> "nofield", response |-> EmptyStr]
MalformedLine == [kind |-> "malformed", response |-> EmptyStr]
Lines == {DeltaLine(d) : d \in DeltaTexts \cup {EmptyStr}}
             \cup {BlankLine, NoFieldLine, MalformedLine}

\* What the server can answer to a non-streaming request with a 2xx status.
AnswerBody(r) == [kind |-> "answer", response |-> r]
NoFieldBody == [kind |-> "nofield", response |-> EmptyStr]
Bodies == {AnswerBody(r) : r \in DeltaTexts} \cup {NoFieldBody}

\* requests.exceptions.RequestException and its subclasses raised by
\* requests.post, raise_for_status and iter_lines.
PostErrors == {"ConnectionError", "Timeout", "HTTPError"}
StreamErrors == {"ChunkedEncodingError", "ConnectionError"}
RequestExceptions == PostErrors \cup StreamErrors

ErrorText(e) == <<"Error communicating with Ollama: ", e>>

NewCall(prompt, streaming) ==
    [prompt |-> prompt, streaming |-> streaming, pc |-> "post",
     response_text |-> EmptyStr, sink |-> <<>>, arrived |-> <<>>,
     result |-> None, error |-> "none", log0 |-> Len(conversation)]

InFlight(c) == c.pc \in {"post", "iter"}

\* Raise with a handler that catches connection failures only, so that the
\* HTTPError of raise_for_status leaves chat.
RaiseStatusUncaught(c, e) ==
    IF e \in RequestExceptions \ {"HTTPError"}
    THEN [c EXCEPT !.pc = "returned", !.result = ErrorText(e), !.error = e]
    ELSE [c EXCEPT !.pc = "raised", !.error = e]

\* except requests.exceptions.RequestException: the narrating string is
\* returned; any other exception leaves chat.
Raise(c, e) ==
    IF e \in RequestExceptions
    THEN [c EXCEPT !.pc = "returned", !.result = ErrorText(e), !.error = e]
    ELSE [c EXCEPT !.pc = "raised", !.error = e]

ChatReturned(c) ==
    last' = [op |-> "chat", ok |-> c.error = "none", result |-> c.result, pre |-> Pre]

ChatLeft(c) ==
    last' = [op |-> "chat", ok |-> FALSE, result |-> None, pre |-> Pre]

\* A caller invokes chat(prompt, stream_callback) and waits for it.
ChatBegin(prompt, streaming) ==
    /\ UNCHANGED send_button
    /\ \A t \in DOMAIN calls : ~InFlight(calls[t])
    /\ Len(conversation) < MaxLog
    /\ calls' = <<NewCall(prompt, streaming)>>
    /\ UNCHANGED <<ollama, config, fs, current_file_path, last>>

\* requests.post or raise_for_status fails.
ChatPostFail(t, e) ==
    /\ UNCHANGED send_button
    /\ t \in DOMAIN calls
    /\ calls[t].pc = "post"
    /\ e \in PostErrors
    /\ calls' = [calls EXCEPT ![t] = Raise(@, e)]
    /\ IF calls'[t].pc = "returned" THEN ChatReturned(calls'[t]) ELSE ChatLeft(calls'[t])
    /\ UNCHANGED <<ollama, config, fs, current_file_path>>

\* Streaming: the request is answered with a 2xx status, iteration starts.
ChatPostStream(t) ==
    /\ UNCHANGED send_button
    /\ t \in DOMAIN calls
    /\ calls[t].pc = "post"
    /\ calls[t].streaming
    /\ calls' = [calls EXCEPT ![t].pc = "iter"]
    /\ UNCHANGED <<ollama, config, fs, current_file_path, last>>

\* Non-streaming: the whole body is read, result["response"] is appended
\* and returned; a body without the field raises KeyError.
ChatPostBody(t, body) ==
    /\ UNCHANGED send_button
    /\ t \in DOMAIN calls
    /\ calls[t].pc = "post"
    /\ ~calls[t].streaming
    /\ IF body.kind = "answer"
       THEN /\ conversation' = Append(conversation,
                                      Exchange(calls[t].prompt, body.response))
            /\ calls' = [calls EXCEPT ![t].pc = "returned",
                                      ![t].result = body.response]
            /\ ChatReturned(calls'[t])
       ELSE /\ calls' = [calls EXCEPT ![t] = Raise(@, "KeyError")]
            /\ ChatLeft(calls'[t])
            /\ UNCHANGED conversation
    /\ UNCHANGED <<base_url, api_generate, api_models, model, system_prompt,
                   parameters, chat_name, config, fs, current_file_path>>

\* ConsumeLine accumulating each delta in front of the text so far.
ConsumeLinePrepend(c, line) ==
    LET seen == [c EXCEPT !.arrived = Append(@, line)] IN
    CASE line.kind = "blank" -> seen
      [] line.kind = "malformed" -> Raise(seen, "JSONDecodeError")
      [] line.kind = "nofield" -> seen
      [] line.kind = "delta" ->
            [seen EXCEPT !.response_text = line.response \o @,
                         !.sink = Append(@, line.response)]

\* The body of the loop over response.iter_lines() for one line.
ConsumeLine(c, line) ==
    LET seen == [c EXCEPT !.arrived = Append(@, line)] IN
    CASE line.kind = "blank" -> seen
      [] line.kind = "malformed" -> Raise(seen, "JSONDecodeError")
      [] line.kind = "nofield" -> seen
      [] line.kind = "delta" ->
            [seen EXCEPT !.response_text = @ \o line.response,
                         !.sink = Append(@, line.response)]

\* Streaming: the next line of the body arrives.
ChatLine(t, line) ==
    /\ UNCHANGED send_button
    /\ t \in DOMAIN calls
    /\ calls[t].pc = "iter"
    /\ Len(calls[t].arrived) < MaxLines
    /\ calls' = [calls EXCEPT ![t] = ConsumeLine(@, line)]
    /\ IF calls'[t].pc = "raised" THEN ChatLeft(calls'[t]) ELSE UNCHANGED last
    /\ UNCHANGED <<ollama, config, fs, current_file_path>>

\* Streaming: the transport fails while the body is read.
ChatStreamFail(t, e) ==
    /\ UNCHANGED send_button
    /\ t \in DOMAIN calls
    /\ calls[t].pc = "iter"
    /\ e \in StreamErrors
    /\ calls' = [calls EXCEPT ![t] = Raise(@, e)]
    /\ IF calls'[t].pc = "returned" THEN ChatReturned(calls'[t]) ELSE ChatLeft(calls'[t])
    /\ UNCHANGED <<ollama, config, fs, current_file_path>>

\* Streaming: the body ends; the exchange is appended and the text returned.
ChatStreamEnd(t) ==
    /\ UNCHANGED send_button
    /\ t \in DOMAIN calls
    /\ calls[t].pc = "iter"
    /\ conversation' = Append(conversation,
                              Exchange(calls[t].prompt, calls[t].response_text))
    /\ calls' = [calls EXCEPT ![t].pc = "returned",
                              ![t].result = calls[t].response_text]
    /\ ChatReturned(calls'[t])
    /\ UNCHANGED <<base_url, api_generate, api_models, model, system_prompt,
                   parameters, chat_name, config, fs, current_file_path>>

-----------------------------------------------------------------------------
(* OllamaChatGUI.send_message: the handler of the Send button and of the   *)
(* Return key of the input field, and the thread it starts.                *)

\* What invokes send_message: the command of the Send button, which tk runs
\* only while the button is not disabled, and the <Return> binding of the
\* input field, which is never removed.
Events == {"button", "return"}

\* send_message with a message that is not blank: the button is disabled
\* and a daemon thread is started that calls chat(user_message,
\* stream_handler), whatever the other threads are doing.
SendMessage(event, prompt) ==
    /\ event = "button" => send_button = "normal"
    /\ Len(calls) < MaxSends
    /\ send_button' = "disabled"
    /\ calls' = Append(calls, NewCall(prompt, TRUE))
    /\ last' = [op |-> "send", ok |-> TRUE, result |-> None, pre |-> Pre]
    /\ UNCHANGED <<ollama, config, fs, current_file_path>>

\* process_message once chat has returned or raised: the value returned is
\* dropped, an exception is shown, and the button is set to NORMAL.
ProcessMessage(t) ==
    /\ t \in DOMAIN calls
    /\ calls[t].pc \in {"returned", "raised"}
    /\ calls' = [calls EXCEPT ![t].pc = "done"]
    /\ send_button' = "normal"
    /\ UNCHANGED <<ollama, config, fs, current_file_path, last>>

-----------------------------------------------------------------------------
(* Strings and paths.                                                      *)

IndicesOf(s, tok) == {i \in DOMAIN s : s[i] = tok}
FirstIndexOf(s, tok) ==
    IF IndicesOf(s, tok) = {} THEN 0
    ELSE CHOOSE i \in IndicesOf(s, tok) : \A j \in IndicesOf(s, tok) : i <= j
LastIndexOf(s, tok) ==
    IF IndicesOf(s, tok) = {} THEN 0
    ELSE CHOOSE i \in IndicesOf(s, tok) : \A j \in IndicesOf(s, tok) : j <= i

\* os.path.dirname, os.path.basename, os.path.join
Dirname(path) ==
    IF LastIndexOf(path, "/") = 0 THEN EmptyStr
    ELSE SubSeq(path, 1, LastIndexOf(path, "/") - 1)
Basename(path) == SubSeq(path, LastIndexOf(path, "/") + 1, Len(path))
Join(dir, file) == IF dir = EmptyStr THEN file ELSE dir \o <<"/">> \o file

\* s.split('.')[0]
SplitDotHead(s) ==
    IF FirstIndexOf(s, ".") = 0 THEN s ELSE SubSeq(s, 1, FirstIndexOf(s, ".") - 1)

\* path.replace(".json", ".txt")
RECURSIVE JsonToTxt(_)
JsonToTxt(path) ==
    IF Len(path) < 2 THEN path
    ELSE IF path[1] = "." /\ path[2] = "json"
         THEN <<".", "txt">> \o JsonToTxt(SubSeq(path, 3, Len(path)))
         ELSE <<path[1]>> \o JsonToTxt(Tail(path))

\* f"{self.save_dir}/{filename_base}.json" and its transcript
DataFile(base) == SaveDir \o <<"/">> \o base \o <<".", "json">>
TextFile(base) == SaveDir \o <<"/">> \o base \o <<".", "txt">>

-----------------------------------------------------------------------------
(* Files.  fs maps the paths that exist to their contents.                 *)

Exists(files, path) == path \in DOMAIN files
WriteFile(files, path, content) ==
    [q \in DOMAIN files \cup {path} |-> IF q = path THEN content ELSE files[q]]
\* os.rename on POSIX: the target is replaced when it exists.
RenameFile(files, old, new) ==
    [q \in (DOMAIN files \ {old}) \cup {new} |-> IF q = new THEN files[old] ELSE files[q]]

\* A file that is not JSON, and one cut short by a write that failed.
Garbage == [kind |-> "garbage"]
Truncated == [kind |-> "truncated"]
\* A JSON document whose top level is an array.
JsonList == [kind |-> "json", shape |-> "list"]

RecordKeys == {"model", "timestamp", "system_prompt", "parameters", "chat_name",
               "conversation"}

\* The value of a record's "parameters" field: a JSON object, or a scalar.
ParamDict(items) == [shape |-> "dict", items |-> items]
ParamScalar == [shape |-> "int", items |-> [k \in {} |-> PyInt("0")]]

\* A JSON document whose top level is an object holding the keys `keys`.
JsonDict(keys, m, sp, params, name, conv) ==
    [kind |-> "json", shape |-> "dict", keys |-> keys, model |-> m,
     system_prompt |-> sp, parameters |-> params, chat_name |-> name,
     conversation |-> conv]

\* The dict both save paths dump: lines 168-175, 914-921 and 948-955.
ChatRecord(name) ==
    JsonDict(RecordKeys, model, system_prompt, ParamDict(parameters), name,
             conversation)

\* The transcript both save paths write: lines 183-190, 929-936, 963-970.
TranscriptLines(conv) ==
    [i \in 1..(3 * Len(conv)) |->
        CASE i % 3 = 1 -> [line |-> "User", i |-> (i + 2) \div 3,
                           text |-> conv[(i + 2) \div 3].user]
          [] i % 3 = 2 -> [line |-> "Assistant", i |-> (i + 2) \div 3,
                           text |-> conv[(i + 2) \div 3].assistant]
          [] i % 3 = 0 -> [line |-> "rule", i |-> 80, text |-> <<"-">>]]

Transcript(m, sp, conv) ==
    [kind |-> "text",
     lines |-> <<[line |-> "Chat with Ollama", i |-> 0, text |-> m]>>
               \o (IF sp # EmptyStr
                   THEN <<[line |-> "System prompt", i |-> 0, text |-> sp]>>
                   ELSE <<>>)
               \o TranscriptLines(conv)]

-----------------------------------------------------------------------------
(* The durable config.                                                     *)

\* str(value) of a parameter value
Str(v) == v.r

FloatTokens == {"0.5", "1.5", "0.7", "0.9", "40", "2000", "40.0", "2000.0",
                "nan", "inf"}

\* float(value): surrounding whitespace is ignored; "nan" and "inf" parse.
StripSpaces(raw) == SelectSeq(raw, LAMBDA tok : tok # " ")
FloatParses(raw) ==
    Len(StripSpaces(raw)) = 1 /\ StripSpaces(raw)[1] \in FloatTokens
Float(raw) ==
    LET tok == StripSpaces(raw)[1] IN
    PyFloat(CASE tok = "40" -> "40.0"
              [] tok = "2000" -> "2000.0"
              [] OTHER -> tok)

\* OllamaChat.save_config: every field is written over the loaded config.
SavedConfig(url, m, sp, params) ==
    [kind |-> "ini",
     base_url |-> url, model |-> m, system_prompt |-> sp,
     parameters |->
        [k \in (IF config.kind = "ini" THEN DOMAIN config.parameters ELSE {})
                   \cup DOMAIN params |->
            IF k \in DOMAIN params THEN <<Str(params[k])>> ELSE config.parameters[k]]]

-----------------------------------------------------------------------------
(* OllamaChat.set_parameter.                                               *)

SetParameter(param, raw) ==
    /\ UNCHANGED send_button
    /\ IF param \in DOMAIN parameters
       THEN IF FloatParses(raw)
            THEN /\ parameters' = [parameters EXCEPT ![param] = Float(raw)]
                 /\ config' = SavedConfig(base_url, model, system_prompt, parameters')
                 /\ last' = [op |-> "set_parameter", ok |-> TRUE, param |-> param,
                             raw |-> raw, pre |-> Pre,
                             result |-> <<"Parameter ", param, " set to ">> \o raw]
            ELSE /\ last' = [op |-> "set_parameter", ok |-> FALSE, param |-> param,
                             raw |-> raw, pre |-> Pre,
                             result |-> <<"Invalid value for ", param>>]
                 /\ UNCHANGED <<parameters, config>>
       ELSE /\ last' = [op |-> "set_parameter", ok |-> FALSE, param |-> param,
                        raw |-> raw, pre |-> Pre,
                        result |-> <<"Unknown parameter: ", param>>]
            /\ UNCHANGED <<parameters, config>>
    /\ UNCHANGED <<base_url, api_generate, api_models, model, system_prompt,
                   conversation, chat_name, fs, current_file_path, calls>>

-----------------------------------------------------------------------------
(* OllamaChat.set_model and OllamaChatGUI.clear_chat.                      *)

\* set_model that also starts the conversation afresh.
SetModelClearing(new_model) ==
    /\ UNCHANGED send_button
    /\ new_model # EmptyStr
    /\ model' = new_model
    /\ conversation' = <<>>
    /\ config' = SavedConfig(base_url, new_model, system_prompt, parameters)
    /\ last' = [op |-> "set_model", ok |-> TRUE, pre |-> Pre,
                result |-> <<"Model changed to ">> \o new_model]
    /\ UNCHANGED <<base_url, api_generate, api_models, system_prompt, parameters,
                   chat_name, fs, current_file_path, calls>>

\* change_model: the model picked in the dropdown, set_model behind it.
SetModel(new_model) ==
    /\ UNCHANGED send_button
    /\ new_model # EmptyStr
    /\ model' = new_model
    /\ config' = SavedConfig(base_url, new_model, system_prompt, parameters)
    /\ last' = [op |-> "set_model", ok |-> TRUE, pre |-> Pre,
                result |-> <<"Model changed to ">> \o new_model]
    /\ UNCHANGED <<base_url, api_generate, api_models, system_prompt, parameters,
                   conversation, chat_name, fs, current_file_path, calls>>

\* clear_chat doing no more than clear_conversation does: the log is
\* emptied, the file path and the chat name stay.
ClearConversationOnly ==
    /\ UNCHANGED send_button
    /\ conversation' = <<>>
    /\ last' = [op |-> "clear", ok |-> TRUE, pre |-> Pre,
                result |-> <<"Conversation cleared">>]
    /\ UNCHANGED <<base_url, api_generate, api_models, model, system_prompt,
                   parameters, chat_name, current_file_path, config, fs, calls>>

\* clear_chat with the question answered yes: clear_conversation empties the
\* log, then the handler resets the file path and the chat name.
ClearChat ==
    /\ UNCHANGED send_button
    /\ conversation' = <<>>
    /\ current_file_path' = None
    /\ chat_name' = EmptyStr
    /\ last' = [op |-> "clear", ok |-> TRUE, pre |-> Pre,
                result |-> <<"Conversation cleared">>]
    /\ UNCHANGED <<base_url, api_generate, api_models, model, system_prompt,
                   parameters, config, fs, calls>>

-----------------------------------------------------------------------------
(* OllamaChat.load_conversation and OllamaChatGUI.load_chat.               *)

\* A load that replaces the parameter map by the record's instead of
\* merging the record's into it.
Replace(d, items) == items

\* data.get(key, default)
Get(doc, key, default) == IF key \in doc.keys THEN doc[key] ELSE default

\* dict.update
Update(d, items) ==
    [k \in DOMAIN d \cup DOMAIN items |-> IF k \in DOMAIN items THEN items[k] ELSE d[k]]

\* The session load_conversation(filename) leaves behind and what it returns.
\* The assignments of lines 200-205 run in order, and an exception stops them
\* where it is raised.
LoadConversation(filename) ==
    IF ~Exists(fs, filename) THEN [ok |-> FALSE, session |-> Session]
    ELSE IF fs[filename].kind # "json" THEN [ok |-> FALSE, session |-> Session]
    ELSE IF fs[filename].shape # "dict" THEN [ok |-> FALSE, session |-> Session]
    ELSE LET data == fs[filename]
             after201 == [Session EXCEPT
                             !.model = Get(data, "model", model),
                             !.system_prompt = Get(data, "system_prompt", EmptyStr)]
         IN  IF "parameters" \in data.keys /\ data.parameters.shape # "dict"
             THEN [ok |-> FALSE, session |-> after201]
             ELSE [ok |-> TRUE,
                   session |-> [after201 EXCEPT
                       !.parameters =
                           IF "parameters" \in data.keys
                           THEN Update(parameters, data.parameters.items)
                           ELSE parameters,
                       !.conversation = Get(data, "conversation", <<>>),
                       !.chat_name = Get(data, "chat_name",
                                         SplitDotHead(Basename(filename)))]]

\* The user picks `filename` in the Load Chat dialog.
LoadChat(filename) ==
    LET loaded == LoadConversation(filename) IN
    /\ filename # EmptyStr
    /\ model' = loaded.session.model
    /\ system_prompt' = loaded.session.system_prompt
    /\ parameters' = loaded.session.parameters
    /\ conversation' = loaded.session.conversation
    /\ chat_name' = loaded.session.chat_name
    /\ current_file_path' = IF loaded.ok THEN filename ELSE current_file_path
    /\ last' = [op |-> "load", ok |-> loaded.ok, filename |-> filename,
                pre |-> Pre, result |-> None]
    /\ UNCHANGED <<base_url, api_generate, api_models, config, fs,
                   calls, send_button>>

-----------------------------------------------------------------------------
(* OllamaChat.save_conversation and OllamaChatGUI.save_chat.               *)

\* Where a save fails, if it does: opening or writing the data file, opening
\* or writing the transcript.  open(path, "w") that fails leaves the file as
\* it was; a write that fails leaves it cut short.  A save that writes
\* nothing has no step to fail at.
SaveFaults == {"none", "json_open", "json_write", "txt_open", "txt_write"}

\* with open(filename, "w"): json.dump(...); with open(text_filename, "w"): ...
SaveFiles(files, filename, text_filename, record, fault) ==
    CASE fault = "json_open" -> files
      [] fault = "json_write" -> WriteFile(files, filename, Truncated)
      [] fault = "txt_open" -> WriteFile(files, filename, record)
      [] fault = "txt_write" ->
            WriteFile(WriteFile(files, filename, record), text_filename, Truncated)
      [] fault = "none" ->
            WriteFile(WriteFile(files, filename, record), text_filename,
                      Transcript(record.model, record.system_prompt,
                                 record.conversation))

\* datetime.now().strftime("%Y%m%d_%H%M%S")
Timestamps == {"20250101_120000"}

\* save_conversation without the test of line 156: an empty log is written
\* like any other.
SaveConversationUnchecked(custom_name, now, fault) ==
    LET filename_base ==
            IF custom_name \notin {None, EmptyStr} THEN custom_name
            ELSE <<"chat_", now>>
    IN  /\ chat_name' = filename_base
        /\ fs' = SaveFiles(fs, DataFile(filename_base), TextFile(filename_base),
                           ChatRecord(filename_base), fault)
        /\ last' = [op |-> "save", ok |-> fault = "none",
                    name |-> filename_base, pre |-> Pre,
                    supplied |-> custom_name,
                    result |-> IF fault = "none"
                               THEN <<"Conversation saved to ">>
                                        \o DataFile(filename_base)
                               ELSE None]
        /\ UNCHANGED <<base_url, api_generate, api_models, model, system_prompt,
                       parameters, conversation, config, current_file_path,
                       calls, send_button>>

\* save_conversation(custom_name) at time `now`; an exception of a write
\* leaves the method.
SaveConversation(custom_name, now, fault) ==
    IF conversation = <<>>
    THEN /\ fault = "none"
         /\ last' = [op |-> "save", ok |-> FALSE, name |-> EmptyStr, pre |-> Pre,
                     supplied |-> custom_name,
                     result |-> <<"No conversation to save">>]
         /\ UNCHANGED <<ollama, config, fs, current_file_path,
                        calls, send_button>>
    ELSE LET filename_base ==
                 IF custom_name \notin {None, EmptyStr} THEN custom_name
                 ELSE <<"chat_", now>>
         IN  /\ chat_name' = filename_base
             /\ fs' = SaveFiles(fs, DataFile(filename_base), TextFile(filename_base),
                                ChatRecord(filename_base), fault)
             /\ last' = [op |-> "save", ok |-> fault = "none",
                         name |-> filename_base, pre |-> Pre,
                         supplied |-> custom_name,
                         result |-> IF fault = "none"
                                    THEN <<"Conversation saved to ">>
                                             \o DataFile(filename_base)
                                    ELSE None]
             /\ UNCHANGED <<base_url, api_generate, api_models, model, system_prompt,
                            parameters, conversation, config, current_file_path,
                            calls, send_button>>

\* os.path.splitext(path)[0]
SplitextRoot(path) ==
    IF LastIndexOf(path, ".") <= LastIndexOf(path, "/") + 1 THEN path
    ELSE SubSeq(path, 1, LastIndexOf(path, ".") - 1)

\* base_name.lower().endswith('.json')
EndsWithJson(name) ==
    Len(name) >= 2 /\ name[Len(name) - 1] = "." /\ name[Len(name)] \in {"json", "JSON"}

\* Save (save_as = FALSE) and Save As; `filename` is what the file dialog
\* returns when it is shown (a cancelled dialog changes nothing), and the
\* empty string when no dialog is shown.  save_chat has no try block: a
\* write that raises leaves the handler with the files as written so far.
SaveChat(save_as, filename, fault) ==
    IF conversation = <<>>
    THEN /\ filename = EmptyStr /\ fault = "none"
         /\ last' = [op |-> "save", ok |-> FALSE, name |-> EmptyStr, pre |-> Pre,
                     supplied |-> None,
                     result |-> <<"No conversation to save">>]
         /\ UNCHANGED <<ollama, config, fs, current_file_path,
                        calls, send_button>>
    ELSE IF save_as \/ chat_name = EmptyStr
    THEN /\ filename # EmptyStr
         /\ LET base_name == IF EndsWithJson(Basename(filename))
                             THEN SplitextRoot(Basename(filename))
                             ELSE Basename(filename)
                text_filename == SplitextRoot(filename) \o <<".", "txt">>
            IN  /\ fs' = SaveFiles(fs, filename, text_filename,
                                   ChatRecord(base_name), fault)
                /\ current_file_path' =
                       IF fault = "none" THEN filename ELSE current_file_path
                /\ chat_name' = IF fault = "none" THEN base_name ELSE chat_name
                /\ last' = [op |-> "save", ok |-> fault = "none",
                            name |-> base_name, pre |-> Pre,
                            supplied |-> base_name,
                            result |-> IF fault = "none"
                                       THEN <<"Conversation saved to ">> \o filename
                                       ELSE None]
         /\ UNCHANGED <<base_url, api_generate, api_models, model, system_prompt,
                        parameters, conversation, config, calls, send_button>>
    ELSE /\ filename = EmptyStr
         /\ fs' = SaveFiles(fs, DataFile(chat_name), TextFile(chat_name),
                            ChatRecord(chat_name), fault)
         /\ current_file_path' =
                IF fault = "none" THEN DataFile(chat_name) ELSE current_file_path
         /\ last' = [op |-> "save", ok |-> fault = "none", name |-> chat_name,
                     pre |-> Pre, supplied |-> None,
                     result |-> IF fault = "none"
                                THEN <<"Conversation saved to ">> \o DataFile(chat_name)
                                ELSE None]
         /\ UNCHANGED <<base_url, api_generate, api_models, model, system_prompt,
                        parameters, conversation, chat_name, config,
                        calls, send_button>>

-----------------------------------------------------------------------------
(* OllamaChat.rename_chat_file and OllamaChatGUI.rename_current_chat.      *)

\* Where a rename can fail after the collision check: either os.rename,
\* reading the moved data file back, opening it for writing, writing it.
RenameFaults == {"none", "rename_json", "rename_txt", "read", "write_open", "write"}

Collision == <<"A file with this name already exists">>
Failure(fault) == <<"str(e)", fault>>

\* rename_chat_file without the check of line 218: os.rename replaces the
\* file that holds the new name.
RenameChatFileUnchecked(files, old_path, new_name, fault) ==
    LET dir_path == Dirname(old_path)
        new_json_path == Join(dir_path, new_name \o <<".", "json">>)
        old_txt_path == JsonToTxt(old_path)
        new_txt_path == Join(dir_path, new_name \o <<".", "txt">>)
        moved == RenameFile(files, old_path, new_json_path)
        both == IF Exists(moved, old_txt_path)
                THEN RenameFile(moved, old_txt_path, new_txt_path)
                ELSE moved
    IN
    IF ~Exists(files, old_path) \/ fault = "rename_json"
    THEN [ok |-> FALSE, result |-> Failure("rename_json"), files |-> files]
    ELSE IF Exists(moved, old_txt_path) /\ fault = "rename_txt"
    THEN [ok |-> FALSE, result |-> Failure(fault), files |-> moved]
    ELSE IF fault = "read" \/ both[new_json_path].kind # "json"
    THEN [ok |-> FALSE, result |-> Failure("read"), files |-> both]
    ELSE IF both[new_json_path].shape # "dict"
    THEN [ok |-> FALSE, result |-> Failure("TypeError"), files |-> both]
    ELSE IF fault = "write_open"
    THEN [ok |-> FALSE, result |-> Failure(fault), files |-> both]
    ELSE IF fault = "write"
    THEN [ok |-> FALSE, result |-> Failure(fault),
          files |-> WriteFile(both, new_json_path, Truncated)]
    ELSE [ok |-> TRUE, result |-> new_json_path,
          files |-> WriteFile(both, new_json_path,
                              [both[new_json_path] EXCEPT
                                  !.keys = @ \cup {"chat_name"},
                                  !.chat_name = new_name])]

\* rename_chat_file(old_path, new_name): what it returns and the files it
\* leaves.  Every exception is caught at line 240 and reported as (False, str(e)).
RenameChatFile(files, old_path, new_name, fault) ==
    LET dir_path == Dirname(old_path)
        new_json_path == Join(dir_path, new_name \o <<".", "json">>)
        old_txt_path == JsonToTxt(old_path)
        new_txt_path == Join(dir_path, new_name \o <<".", "txt">>)
        moved == RenameFile(files, old_path, new_json_path)
        both == IF Exists(moved, old_txt_path)
                THEN RenameFile(moved, old_txt_path, new_txt_path)
                ELSE moved
    IN
    IF Exists(files, new_json_path)
    THEN [ok |-> FALSE, result |-> Collision, files |-> files]
    ELSE IF ~Exists(files, old_path) \/ fault = "rename_json"
    THEN [ok |-> FALSE, result |-> Failure("rename_json"), files |-> files]
    ELSE IF Exists(moved, old_txt_path) /\ fault = "rename_txt"
    THEN [ok |-> FALSE, result |-> Failure(fault), files |-> moved]
    ELSE IF fault = "read" \/ both[new_json_path].kind # "json"
    THEN [ok |-> FALSE, result |-> Failure("read"), files |-> both]
    ELSE IF both[new_json_path].shape # "dict"
    THEN [ok |-> FALSE, result |-> Failure("TypeError"), files |-> both]
    ELSE IF fault = "write_open"
    THEN [ok |-> FALSE, result |-> Failure(fault), files |-> both]
    ELSE IF fault = "write"
    THEN [ok |-> FALSE, result |-> Failure(fault),
          files |-> WriteFile(both, new_json_path, Truncated)]
    ELSE [ok |-> TRUE, result |-> new_json_path,
          files |-> WriteFile(both, new_json_path,
                              [both[new_json_path] EXCEPT
                                  !.keys = @ \cup {"chat_name"},
                                  !.chat_name = new_name])]

\* Rename Chat: the dialog's do_rename with the name the user typed.
DoRename(new_name, fault) ==
    LET current_name == IF chat_name # EmptyStr THEN chat_name
                        ELSE SplitDotHead(Basename(current_file_path))
        renamed == RenameChatFile(fs, current_file_path, new_name, fault)
    IN  /\ current_file_path # None
        /\ Exists(fs, current_file_path)
        /\ new_name # EmptyStr
        /\ new_name # current_name
        /\ fs' = renamed.files
        /\ current_file_path' = IF renamed.ok THEN renamed.result ELSE current_file_path
        /\ chat_name' = IF renamed.ok THEN new_name ELSE chat_name
        /\ last' = [op |-> "rename", ok |-> renamed.ok, old_path |-> current_file_path,
                    new_name |-> new_name, result |-> renamed.result, pre |-> Pre]
        /\ UNCHANGED <<base_url, api_generate, api_models, model, system_prompt,
                       parameters, conversation, config, calls, send_button>>

-----------------------------------------------------------------------------
(* OllamaChat.get_models and OllamaChat.check_connection.                  *)

\* An entry of the "models" array, with its "name" or without.
Named(name) == [has_name |-> TRUE, name |-> name]
Nameless == [has_name |-> FALSE, name |-> EmptyStr]

\* What a GET of api_models can meet: no connection, an error status, a
\* body that is not JSON, a JSON object without "models", and a JSON object
\* with a "models" array.
ModelsReply(kind, entries) == [kind |-> kind, entries |-> entries]
ModelsReplies ==
    {ModelsReply(kind, <<>>) : kind \in {"refused", "status", "not_json", "no_models"}}
        \cup {ModelsReply("models", entries) :
                 entries \in {<<>>, <<Named(<<"a">>), Named(<<"b">>)>>,
                              <<Named(<<"b">>), Named(<<"a">>)>>,
                              <<Named(<<"a">>), Nameless>>}}

\* The exception get_models meets on a reply, "none" when there is none.
\* response.json() on a body that is not JSON raises a RequestException only
\* with requests 2.27 and later: json_is_request_exception tells which.
ModelsError(reply, json_is_request_exception) ==
    CASE reply.kind = "refused" -> "ConnectionError"
      [] reply.kind = "status" -> "HTTPError"
      [] reply.kind = "not_json" ->
            IF json_is_request_exception THEN "JSONDecodeError" ELSE "ValueError"
      [] reply.kind = "no_models" -> "KeyError"
      [] reply.kind = "models" ->
            IF \E i \in DOMAIN reply.entries : ~reply.entries[i].has_name
            THEN "KeyError" ELSE "none"

\* load_models: get_models is called from the GUI thread.  The handler of
\* line 140 catches RequestException and nothing else.
GetModels(reply, json_is_request_exception) ==
    LET e == ModelsError(reply, json_is_request_exception)
        caught == e \in RequestExceptions \cup {"JSONDecodeError"}
    IN  /\ last' = [op |-> "get_models", ok |-> e = "none", reply |-> reply,
                    raised |-> IF e = "none" \/ caught THEN "none" ELSE e,
                    result |-> IF e = "none"
                               THEN [i \in DOMAIN reply.entries |->
                                        reply.entries[i].name]
                               ELSE <<>>,
                    pre |-> Pre]
        /\ UNCHANGED <<ollama, config, fs, current_file_path,
                       calls, send_button>>

\* What the server does with the GET of a probe.  requests.get is called
\* without a timeout: a server that accepts and stays silent is waited for.
ServerModes == {"refuses", "error", "answers", "silent"}

NewProbe(url, server) ==
    [pc |-> "probe", url |-> url, server |-> server, result |-> None]

\* OllamaChatGUI.check_connection: do_check is started in a thread.
CheckBegin(server) ==
    /\ UNCHANGED send_button
    /\ Len(calls) < MaxProbes
    /\ calls' = Append(calls, NewProbe(base_url \o <<"/api/version">>, server))
    /\ UNCHANGED <<ollama, config, fs, current_file_path, last>>

CheckReturned(t, value) ==
    /\ UNCHANGED send_button
    /\ calls' = [calls EXCEPT ![t].pc = "done", ![t].result = value]
    /\ last' = [op |-> "check_connection", ok |-> value = <<"True">>,
                result |-> value, pre |-> Pre]
    /\ UNCHANGED <<ollama, config, fs, current_file_path>>

\* requests.get raises ConnectionError: caught, False.
CheckRefused(t) ==
    /\ t \in DOMAIN calls
    /\ calls[t].pc = "probe"
    /\ calls[t].server = "refuses"
    /\ CheckReturned(t, <<"False">>)

\* raise_for_status raises HTTPError: caught, False.
CheckStatus(t) ==
    /\ t \in DOMAIN calls
    /\ calls[t].pc = "probe"
    /\ calls[t].server = "error"
    /\ CheckReturned(t, <<"False">>)

\* A 2xx answer: True.
CheckAnswered(t) ==
    /\ t \in DOMAIN calls
    /\ calls[t].pc = "probe"
    /\ calls[t].server = "answers"
    /\ CheckReturned(t, <<"True">>)

\* Connection Settings, Save: the URL typed, the config written, a probe
\* started.
SaveSettings(new_url, server) ==
    /\ UNCHANGED send_button
    /\ new_url # EmptyStr
    /\ Len(calls) < MaxProbes
    /\ base_url' = new_url
    /\ api_generate' = new_url \o <<"/api/generate">>
    /\ api_models' = new_url \o <<"/api/tags">>
    /\ config' = SavedConfig(new_url, model, system_prompt, parameters)
    /\ calls' = Append(calls, NewProbe(new_url \o <<"/api/version">>, server))
    /\ last' = [op |-> "save_settings", ok |-> TRUE, pre |-> Pre,
                result |-> <<"API URL changed to ">> \o new_url]
    /\ UNCHANGED <<model, system_prompt, parameters, conversation, chat_name, fs,
                   current_file_path>>

-----------------------------------------------------------------------------
(* Construction.                                                           *)

NoFile == [kind |-> "absent"]
NoLast == [op |-> "none", ok |-> TRUE, result |-> None]

\* OllamaChat() with no config.ini, OllamaChatGUI.__init__ after it.
Init ==
    /\ base_url = DefaultBaseUrl
    /\ api_generate = DefaultBaseUrl \o <<"/api/generate">>
    /\ api_models = DefaultBaseUrl \o <<"/api/tags">>
    /\ model = DefaultModel
    /\ system_prompt = EmptyStr
    /\ parameters = DefaultParameters
    /\ conversation = <<>>
    /\ chat_name = EmptyStr
    /\ config = NoFile
    /\ fs = << >>
    /\ current_file_path = None
    /\ calls = <<>>
    /\ send_button = "normal"
    /\ last = NoLast

-----------------------------------------------------------------------------
(* The request pipeline driven by one caller.                              *)

NextChat ==
    \/ \E s \in BOOLEAN : ChatBegin(<<"p1">>, s)
    \/ \E t \in DOMAIN calls, e \in PostErrors : ChatPostFail(t, e)
    \/ \E t \in DOMAIN calls : ChatPostStream(t)
    \/ \E t \in DOMAIN calls, b \in Bodies : ChatPostBody(t, b)
    \/ \E t \in DOMAIN calls, l \in Lines : ChatLine(t, l)
    \/ \E t \in DOMAIN calls, e \in StreamErrors : ChatStreamFail(t, e)
    \/ \E t \in DOMAIN calls : ChatStreamEnd(t)

SpecChat == Init /\ [][NextChat]_vars

-----------------------------------------------------------------------------
(* The session: parameters, load and relaunch.                             *)

\* The process is started again: OllamaChat() reads config.ini (lines 60-73).
\* A config whose parameter does not parse makes float() raise in __init__,
\* and no session comes to exist: that relaunch is not a step of the model.
Restart ==
    LET ini == config.kind = "ini" IN
    /\ ini => \A k \in ParamKeys \cap DOMAIN config.parameters :
                  FloatParses(config.parameters[k])
    /\ base_url' = IF ini THEN config.base_url ELSE DefaultBaseUrl
    /\ api_generate' = DefaultBaseUrl \o <<"/api/generate">>
    /\ api_models' = DefaultBaseUrl \o <<"/api/tags">>
    /\ model' = IF ini THEN config.model ELSE DefaultModel
    /\ system_prompt' = IF ini THEN config.system_prompt ELSE EmptyStr
    /\ parameters' =
          [k \in ParamKeys |->
              IF ini /\ k \in DOMAIN config.parameters
              THEN Float(config.parameters[k])
              ELSE DefaultParameters[k]]
    /\ conversation' = <<>>
    /\ chat_name' = EmptyStr
    /\ current_file_path' = None
    /\ calls' = <<>>
    /\ send_button' = "normal"
    /\ last' = [op |-> "init", ok |-> TRUE, result |-> None, pre |-> Pre]
    /\ UNCHANGED <<config, fs>>

\* Files another session, a user or another program left in save_dir.
OtherExchange == Exchange(<<"hi">>, <<"hello">>)
ForeignFile == DataFile(<<"x">>)
MissingFile == DataFile(<<"missing">>)
ForeignDocs ==
    { JsonDict(RecordKeys, <<"m2">>, <<"sys">>,
               ParamDict([temperature |-> PyFloat("0.5"), top_p |-> PyFloat("0.9"),
                          top_k |-> PyInt("40"), max_tokens |-> PyInt("2000")]),
               <<"x">>, <<OtherExchange>>),
      JsonDict({"conversation"}, EmptyStr, EmptyStr, ParamDict(<<>>), EmptyStr,
               <<OtherExchange>>),
      JsonDict(RecordKeys \ {"parameters"}, <<"m2">>, <<"sys">>, ParamDict(<<>>),
               <<"x">>, <<OtherExchange>>),
      JsonDict(RecordKeys, <<"m2">>, <<"sys">>, ParamScalar, <<"x">>,
               <<OtherExchange>>),
      JsonDict(RecordKeys, <<"m2">>, EmptyStr,
               ParamDict([foo |-> PyStr("bar")]), <<"x">>, <<OtherExchange>>),
      JsonDict(RecordKeys, <<"m2">>, EmptyStr,
               ParamDict([temperature |-> PyStr("hot")]), <<"x">>, <<OtherExchange>>),
      JsonList,
      Garbage }

InitSession ==
    /\ base_url = DefaultBaseUrl
    /\ api_generate = DefaultBaseUrl \o <<"/api/generate">>
    /\ api_models = DefaultBaseUrl \o <<"/api/tags">>
    /\ model = DefaultModel
    /\ system_prompt = EmptyStr
    /\ parameters = DefaultParameters
    /\ conversation = <<>>
    /\ chat_name = EmptyStr
    /\ config = NoFile
    /\ \E doc \in ForeignDocs : fs = [path \in {ForeignFile} |-> doc]
    /\ current_file_path = None
    /\ calls = <<>>
    /\ send_button = "normal"
    /\ last = NoLast

ParamInputs == {"temperature", "bogus", "foo"}
RawValues == {<<" ", "1.5", " ">>, <<"abc">>, <<"nan">>}

NextSession ==
    \/ \E param \in ParamInputs, raw \in RawValues : SetParameter(param, raw)
    \/ \E filename \in {ForeignFile, MissingFile} : LoadChat(filename)
    \/ Restart
    \/ ChatBegin(<<"p1">>, FALSE)
    \/ \E t \in DOMAIN calls : ChatPostBody(t, AnswerBody(<<"A">>))

SpecSession == InitSession /\ [][NextSession]_vars

-----------------------------------------------------------------------------
(* The files of save_dir: save and rename, with the log growing between.   *)

ChatNames == {<<"a">>, <<"b">>}

NextFiles ==
    \/ ChatBegin(<<"p1">>, FALSE)
    \/ \E t \in DOMAIN calls : ChatPostBody(t, AnswerBody(<<"A">>))
    \/ \E now \in Timestamps, fault \in SaveFaults :
          SaveConversation(<<"a">>, now, fault)
    \/ \E save_as \in BOOLEAN, fault \in SaveFaults,
          filename \in {EmptyStr} \cup {DataFile(name) : name \in ChatNames} :
          SaveChat(save_as, filename, fault)
    \/ \E name \in ChatNames, fault \in RenameFaults : DoRename(name, fault)

SpecFiles == Init /\ [][NextFiles]_vars

-----------------------------------------------------------------------------
(* Saving and clearing: the chat name a save resolves, with no write        *)
(* failing.                                                                *)

NextStore ==
    \/ ChatBegin(<<"p1">>, FALSE)
    \/ \E t \in DOMAIN calls : ChatPostBody(t, AnswerBody(<<"A">>))
    \/ \E custom_name \in {None, <<"a">>}, now \in Timestamps :
          SaveConversation(custom_name, now, "none")
    \/ \E save_as \in BOOLEAN, filename \in {EmptyStr, DataFile(<<"b">>)} :
          SaveChat(save_as, filename, "none")
    \/ ClearChat

SpecStore == Init /\ [][NextStore]_vars

-----------------------------------------------------------------------------
(* Save, then load what was saved.                                         *)

\* A record without a chat_name field, left in save_dir under a file name
\* with two dots.
DottedFile == SaveDir \o <<"/", "a", ".", "b", ".", "json">>
DottedDoc ==
    JsonDict({"model", "timestamp", "system_prompt", "conversation"}, DefaultModel,
             EmptyStr, ParamDict(<<>>), EmptyStr, <<Exchange(<<"p1">>, <<"A">>)>>)

InitRoundTrip ==
    /\ base_url = DefaultBaseUrl
    /\ api_generate = DefaultBaseUrl \o <<"/api/generate">>
    /\ api_models = DefaultBaseUrl \o <<"/api/tags">>
    /\ model = DefaultModel
    /\ system_prompt = EmptyStr
    /\ parameters = DefaultParameters
    /\ conversation = <<>>
    /\ chat_name = EmptyStr
    /\ config = NoFile
    /\ fs = [path \in {DottedFile} |-> DottedDoc]
    /\ current_file_path = None
    /\ calls = <<>>
    /\ send_button = "normal"
    /\ last = NoLast

\* The files of chat a.  In the Save As dialog the user can type either name.
FilesOfA == {DataFile(<<"a">>), TextFile(<<"a">>)}

NextRoundTrip ==
    \/ ChatBegin(<<"p1">>, FALSE)
    \/ \E t \in DOMAIN calls :
          Len(conversation) < MaxLog /\ ChatPostBody(t, AnswerBody(<<"A">>))
    \/ \E now \in Timestamps : SaveConversation(<<"a">>, now, "none")
    \/ SaveChat(TRUE, TextFile(<<"a">>), "none")
    \/ \E filename \in FilesOfA \cup {DottedFile} : LoadChat(filename)
    \/ ClearChat
    \/ SetParameter("temperature", <<"1.5">>)

SpecRoundTrip == InitRoundTrip /\ [][NextRoundTrip]_vars

-----------------------------------------------------------------------------
(* The log under every operation of the session.                           *)

NextLog ==
    \/ ChatBegin(<<"p1">>, FALSE)
    \/ \E t \in DOMAIN calls :
          Len(conversation) < MaxLog /\ ChatPostBody(t, AnswerBody(<<"A">>))
    \/ \E save_as \in BOOLEAN, filename \in {EmptyStr, DataFile(<<"a">>)} :
          SaveChat(save_as, filename, "none")
    \/ DoRename(<<"b">>, "none")
    \/ LoadChat(DataFile(<<"b">>))
    \/ ClearChat
    \/ SetParameter("temperature", <<"0.7">>)
    \/ SetModel(<<"m2">>)

SpecLog == Init /\ [][NextLog]_vars

-----------------------------------------------------------------------------
(* The server seen from get_models and check_connection.                   *)

OtherUrl == <<"http://otherhost:11434">>

NextServer ==
    \/ \E server \in ServerModes : CheckBegin(server)
    \/ \E t \in 1..MaxProbes : CheckRefused(t)
    \/ \E t \in 1..MaxProbes : CheckStatus(t)
    \/ \E t \in 1..MaxProbes : CheckAnswered(t)
    \/ \E reply \in ModelsReplies, json_is_request_exception \in BOOLEAN :
          GetModels(reply, json_is_request_exception)
    \/ \E server \in ServerModes : SaveSettings(OtherUrl, server)

\* What the network sends is delivered: an answer, a refusal or an error
\* status under way reaches requests.get.  Nothing makes a silent server
\* speak.
SpecServer ==
    /\ Init
    /\ [][NextServer]_vars
    /\ \A t \in 1..MaxProbes :
           WF_vars(CheckRefused(t) \/ CheckStatus(t) \/ CheckAnswered(t))

-----------------------------------------------------------------------------
(* The GUI sending: every thread of send_message beside the others, and    *)
(* the log cleared under them.                                             *)

NextSend ==
    \/ \E event \in Events, prompt \in Prompts : SendMessage(event, prompt)
    \/ \E t \in 1..MaxSends : ChatPostFail(t, "ConnectionError")
    \/ \E t \in 1..MaxSends : ChatPostStream(t)
    \/ \E t \in 1..MaxSends, line \in {DeltaLine(<<"A">>), MalformedLine} :
            ChatLine(t, line)
    \/ \E t \in 1..MaxSends : ChatStreamFail(t, "ChunkedEncodingError")
    \/ \E t \in 1..MaxSends : ChatStreamEnd(t)
    \/ \E t \in 1..MaxSends : ProcessMessage(t)
    \/ ClearChat

SpecSend == Init /\ [][NextSend]_vars

-----------------------------------------------------------------------------
(* The endpoint: changed in Connection Settings, read back at a relaunch.  *)

NextEndpoint ==
    \/ \E new_url \in {OtherUrl, DefaultBaseUrl}, server \in {"answers", "refuses"} :
          SaveSettings(new_url, server)
    \/ \E server \in {"answers", "refuses"} : CheckBegin(server)
    \/ \E t \in 1..MaxProbes : CheckRefused(t)
    \/ \E t \in 1..MaxProbes : CheckAnswered(t)
    \/ \E new_model \in {DefaultModel, <<"mistral">>} : SetModel(new_model)
    \/ Restart

SpecEndpoint == Init /\ [][NextEndpoint]_vars

-----------------------------------------------------------------------------
(* The current file path: load, Save As and Save in turn.                  *)

NextPath ==
    \/ ChatBegin(<<"p1">>, FALSE)
    \/ \E t \in DOMAIN calls :
          Len(conversation) < MaxLog /\ ChatPostBody(t, AnswerBody(<<"A">>))
    \/ \E filename \in {DottedFile, DataFile(<<"a">>)} : LoadChat(filename)
    \/ \E filename \in {DataFile(<<"a">>), DataFile(<<"b">>)} :
          SaveChat(TRUE, filename, "none")
    \/ SaveChat(FALSE, EmptyStr, "none")
    \/ ClearChat

SpecPath == InitRoundTrip /\ [][NextPath]_vars

-----------------------------------------------------------------------------
(* Properties of OllamaChat.chat, checked under SpecChat.                  *)

RECURSIVE Concat(_)
Concat(texts) ==
    IF texts = <<>> THEN EmptyStr ELSE Head(texts) \o Concat(Tail(texts))

\* The deltas of the lines that carry one, in arrival order.
DeltasOf(arrived) ==
    LET carrying == SelectSeq(arrived, LAMBDA l : l.kind = "delta")
    IN  [i \in 1..Len(carrying) |-> carrying[i].response]

HasMalformed(arrived) == \E i \in DOMAIN arrived : arrived[i].kind = "malformed"

\* C1: every call of chat that has returned to its caller, with the answer or
\* with the error-narrating string, has appended exactly one Exchange whose
\* user side is the prompt and whose assistant side is the returned text.
C1_EveryReturnAppendsOneExchange ==
    \A t \in DOMAIN calls :
        calls[t].pc = "returned" =>
            /\ Len(conversation) = calls[t].log0 + 1
            /\ conversation[Len(conversation)]
                   = Exchange(calls[t].prompt, calls[t].result)

\* C2: a streamed line that is not well-formed JSON is skipped: no fault
\* leaves chat because of it, the deltas of the well-formed lines around it
\* reach the sink, and the call returns their accumulated text.
C2_MalformedFragmentSkipped ==
    \A t \in DOMAIN calls :
        HasMalformed(calls[t].arrived) =>
            /\ calls[t].pc # "raised"
            /\ calls[t].sink = DeltasOf(calls[t].arrived)
            /\ (calls[t].pc = "returned" /\ calls[t].error = "none"
                    => calls[t].result = Concat(DeltasOf(calls[t].arrived)))

\* C3 (as stated): the text a streaming call returns is the concatenation of
\* the deltas passed to the sink.
C3_ReturnedTextIsConcatenation ==
    \A t \in DOMAIN calls :
        calls[t].streaming /\ calls[t].pc = "returned"
            => calls[t].result = Concat(calls[t].sink)

\* C3 (amended): within one streaming call the sink receives exactly the
\* deltas of the delta-carrying lines, one call per line and in arrival
\* order; the accumulated text is their concatenation in that order, and it
\* is the text returned when the call ends without a transport failure.
C3_SinkInArrivalOrder ==
    \A t \in DOMAIN calls :
        calls[t].streaming =>
            /\ calls[t].sink = DeltasOf(calls[t].arrived)
            /\ calls[t].response_text = Concat(calls[t].sink)
            /\ (calls[t].pc = "returned" /\ calls[t].error = "none"
                    => calls[t].result = Concat(calls[t].sink))

C3_Witness ==
    \E t \in DOMAIN calls :
        /\ calls[t].streaming
        /\ calls[t].pc = "returned"
        /\ calls[t].error = "none"
        /\ calls[t].sink = << <<"A">>, <<"B">> >>
        /\ calls[t].result = <<"A", "B">>

\* C4: a transport failure of the generation request, at request time or in
\* the middle of a stream, never leaves chat as an exception: the call
\* returns a non-empty string that narrates the error, in both modes.
C4_TransportFailureNarrated ==
    \A t \in DOMAIN calls :
        calls[t].error \in RequestExceptions =>
            /\ calls[t].pc = "returned"
            /\ calls[t].result # EmptyStr
            /\ calls[t].result = ErrorText(calls[t].error)

C4_Witness ==
    /\ \E t \in DOMAIN calls :
        /\ calls[t].streaming
        /\ calls[t].error = "ChunkedEncodingError"
        /\ calls[t].pc = "returned"
        /\ Len(calls[t].sink) > 0
    /\ last.op = "chat" /\ ~last.ok

C4_WitnessNonStreaming ==
    \E t \in DOMAIN calls :
        /\ ~calls[t].streaming
        /\ calls[t].error = "HTTPError"
        /\ calls[t].pc = "returned"

-----------------------------------------------------------------------------
(* Properties of the session, checked under SpecSession.                   *)

IsFinite(v) == v.t \in {"float", "int"} /\ v.r \notin {"nan", "inf"}
ParsesFinite(raw) == FloatParses(raw) /\ IsFinite(Float(raw))

\* C5: a load that reports failure leaves the in-memory session exactly as
\* it was: model, system prompt, parameters, conversation log, chat name.
C5_FailedLoadLeavesSession ==
    last.op = "load" /\ ~last.ok =>
        /\ Session = last.pre.session
        /\ current_file_path = last.pre.current_file_path

\* C6: in every reachable state the parameter map has exactly the four fixed
\* keys, each bound to a finite number.
C6_ParametersWellFormed ==
    /\ DOMAIN parameters = ParamKeys
    /\ \A k \in DOMAIN parameters : IsFinite(parameters[k])

\* C7: set_parameter with a name outside the fixed set, or with a raw value
\* that does not parse to a finite number, returns an error outcome and
\* leaves the in-memory parameters and the durable config as they were.
C7_InvalidSetParameterRejected ==
    last.op = "set_parameter"
        /\ (last.param \notin ParamKeys \/ ~ParsesFinite(last.raw)) =>
            /\ ~last.ok
            /\ last.result = (IF last.param \notin ParamKeys
                              THEN <<"Unknown parameter: ", last.param>>
                              ELSE <<"Invalid value for ", last.param>>)
            /\ parameters = last.pre.session.parameters
            /\ config = last.pre.config

-----------------------------------------------------------------------------
(* Properties of save and rename, checked under SpecFiles.                 *)

\* The data file path a rename of old_path to new_name moves to.
RenameTarget(old_path, new_name) ==
    Join(Dirname(old_path), new_name \o <<".", "json">>)
RenameTargetText(old_path, new_name) ==
    Join(Dirname(old_path), new_name \o <<".", "txt">>)

\* C8: a rename to a name whose data file already exists in the directory
\* fails with the name-collision outcome and changes nothing on disk: source
\* and target data files and transcripts keep their names and contents (and
\* the session keeps its chat name and file path).
C8_CollisionChangesNothing ==
    last.op = "rename"
        /\ Exists(last.pre.fs, RenameTarget(last.old_path, last.new_name)) =>
            /\ ~last.ok
            /\ last.result = Collision
            /\ fs = last.pre.fs
            /\ chat_name = last.pre.session.chat_name
            /\ current_file_path = last.pre.current_file_path

C8_Witness ==
    /\ last.op = "rename"
    /\ ~last.ok
    /\ last.result = Collision
    /\ Exists(fs, last.old_path)
    /\ Exists(fs, JsonToTxt(last.old_path))
    /\ Exists(fs, RenameTarget(last.old_path, last.new_name))
    /\ Exists(fs, RenameTargetText(last.old_path, last.new_name))
    /\ fs[last.old_path] # fs[RenameTarget(last.old_path, last.new_name)]

\* C9: a rename is all or nothing.  When it reports success the data file
\* and the transcript (if there was one) are under the new name and the data
\* file's chat_name is the new name; when it reports failure every file is
\* still under its old name with its old contents.
C9_RenameAllOrNothing ==
    last.op = "rename" =>
        LET old == last.old_path
            new == RenameTarget(last.old_path, last.new_name)
            old_txt == JsonToTxt(last.old_path)
            new_txt == RenameTargetText(last.old_path, last.new_name)
        IN  IF last.ok
            THEN /\ ~Exists(fs, old)
                 /\ Exists(fs, new)
                 /\ fs[new].kind = "json"
                 /\ fs[new].chat_name = last.new_name
                 /\ (Exists(last.pre.fs, old_txt) =>
                        /\ ~Exists(fs, old_txt)
                        /\ Exists(fs, new_txt)
                        /\ fs[new_txt] = last.pre.fs[old_txt])
            ELSE fs = last.pre.fs

\* C10: after a save attempt on a chat name, whether it succeeded or failed
\* at some step, a transcript of that name is not stale: it renders the
\* conversation snapshot of the data file of that name now on disk.  (Only
\* whole files are compared: a file cut short by its own failed write is not
\* counted as stale.)
C10_TranscriptNeverStale ==
    (/\ last.op = "save"
     /\ last.name # EmptyStr
     /\ Exists(fs, TextFile(last.name))
     /\ fs[TextFile(last.name)].kind = "text"
     /\ Exists(fs, DataFile(last.name))
     /\ fs[DataFile(last.name)].kind = "json") =>
        fs[TextFile(last.name)]
            = Transcript(fs[DataFile(last.name)].model,
                         fs[DataFile(last.name)].system_prompt,
                         fs[DataFile(last.name)].conversation)

-----------------------------------------------------------------------------
(* Properties of save and clear, checked under SpecStore.                  *)

\* A chat name save_conversation synthesizes from the clock.
Synthesized == {<<"chat_", now>> : now \in Timestamps}

\* C11: a save of a non-empty log resolves the chat name in this order: the
\* supplied name if one is given, otherwise the current chat name if one is
\* set, otherwise a name synthesized from the timestamp; and a save without a
\* name on a session that has a chat name creates no timestamp-named record.
C11_SaveResolvesName ==
    (last.op = "save" /\ last.pre.session.conversation # <<>>) =>
        IF last.supplied \notin {None, EmptyStr}
        THEN last.name = last.supplied
        ELSE IF last.pre.session.chat_name # EmptyStr
        THEN /\ last.name = last.pre.session.chat_name
             /\ \A name \in Synthesized :
                    Exists(fs, DataFile(name)) => Exists(last.pre.fs, DataFile(name))
        ELSE last.name \in Synthesized

\* C12: a save on a session whose log is empty fails with the
\* nothing-to-save outcome, creates or modifies no file and leaves the chat
\* name unchanged, on a fresh session and after a clear.
C12_EmptyLogSavesNothing ==
    (last.op = "save" /\ last.pre.session.conversation = <<>>) =>
        /\ ~last.ok
        /\ last.result = <<"No conversation to save">>
        /\ fs = last.pre.fs
        /\ chat_name = last.pre.session.chat_name
        /\ conversation = <<>>

\* A save refused after a clear, with files of an earlier save on disk.
C12_Witness ==
    /\ last.op = "save"
    /\ last.pre.session.conversation = <<>>
    /\ ~last.ok
    /\ fs # << >>
    /\ fs = last.pre.fs

\* C17: clear empties the log and resets the session to the unsaved,
\* nameless state: the chat name is empty and the GUI's file path is unset,
\* so that the next save without a name does not go to the cleared chat's
\* name (it asks for one, or synthesizes one).
C17_ClearResetsName ==
    /\ last.op = "clear" =>
          /\ conversation = <<>>
          /\ chat_name = EmptyStr
          /\ current_file_path = None
    /\ (last.op = "save" /\ last.ok /\ last.pre.current_file_path = None
            /\ last.pre.session.chat_name = EmptyStr) =>
          (last.supplied \notin {None, EmptyStr} \/ last.name \in Synthesized)

\* A clear of a chat that had a name, a file path and a log.
C17_Witness ==
    /\ last.op = "clear"
    /\ last.pre.session.chat_name # EmptyStr
    /\ last.pre.current_file_path # None
    /\ last.pre.session.conversation # <<>>
    /\ chat_name = EmptyStr

-----------------------------------------------------------------------------
(* Properties of save followed by load, checked under SpecRoundTrip.       *)

\* The path a successful save reports: "Conversation saved to {filename}".
SavedPath == Tail(last.result)

\* A data file as a save writes it: a JSON object with the six fields.
IsChatRecord(doc) ==
    /\ doc.kind = "json"
    /\ doc.shape = "dict"
    /\ doc.keys = RecordKeys
    /\ doc.parameters.shape = "dict"

\* C13: round trip.  A save of a non-empty log under a name leaves a data
\* file that holds the log, the parameter values and the name; and a load of
\* such a file, whatever setParameter, appended exchanges or clear did to the
\* session in between, succeeds and restores the log element by element in
\* order, the parameter values and the chat name of the file.
C13_RoundTrip ==
    /\ (last.op = "save" /\ last.ok) =>
          /\ Exists(fs, SavedPath)
          /\ IsChatRecord(fs[SavedPath])
          /\ fs[SavedPath].conversation = last.pre.session.conversation
          /\ fs[SavedPath].parameters.items = last.pre.session.parameters
          /\ fs[SavedPath].chat_name = last.name
    /\ (/\ last.op = "load"
        /\ Exists(last.pre.fs, last.filename)
        /\ IsChatRecord(last.pre.fs[last.filename])) =>
          /\ last.ok
          /\ conversation = last.pre.fs[last.filename].conversation
          /\ parameters = last.pre.fs[last.filename].parameters.items
          /\ chat_name = last.pre.fs[last.filename].chat_name

\* The stem of a file name: the name with only its final extension removed.
Stem(filename) == SplitextRoot(Basename(filename))

\* C20: on a successful load the chat name is the record's chat_name field
\* when the record has one, and otherwise the stem of the loaded file's name
\* (a.b for a record stored in a.b.json).
C20_ChatNameFromRecordOrStem ==
    (last.op = "load" /\ last.ok) =>
        chat_name =
            IF "chat_name" \in last.pre.fs[last.filename].keys
            THEN last.pre.fs[last.filename].chat_name
            ELSE Stem(last.filename)

-----------------------------------------------------------------------------
(* Properties of load and of the durable config, checked under SpecSession. *)

\* The parameters of a record: data["parameters"] when the record has them.
ItemsOf(data) ==
    IF "parameters" \in data.keys THEN data.parameters.items ELSE <<>>

\* C14: a successful load merges parameters and replaces the log.  Every
\* parameter key of the record takes the record's value, every key absent
\* from the record keeps its value of before the load, and the log is
\* exactly the record's conversation.
C14_LoadMergesAndReplaces ==
    (last.op = "load" /\ last.ok) =>
        LET data == last.pre.fs[last.filename]
            before == last.pre.session.parameters
        IN  /\ DOMAIN parameters = DOMAIN before \cup DOMAIN ItemsOf(data)
            /\ \A k \in DOMAIN parameters :
                   parameters[k] = IF k \in DOMAIN ItemsOf(data)
                                   THEN ItemsOf(data)[k]
                                   ELSE before[k]
            /\ conversation = IF "conversation" \in data.keys
                              THEN data.conversation
                              ELSE <<>>

\* A load over a session with a log of its own and a temperature set by
\* hand, of a record that has parameters but no temperature.
C14_Witness ==
    /\ last.op = "load"
    /\ last.ok
    /\ last.pre.session.conversation # <<>>
    /\ last.pre.session.conversation # conversation
    /\ DOMAIN ItemsOf(last.pre.fs[last.filename]) # {}
    /\ "temperature" \notin DOMAIN ItemsOf(last.pre.fs[last.filename])
    /\ parameters["temperature"] = PyFloat("1.5")

\* The durable config holds what the session holds.
ConfigHoldsSession ==
    /\ config.kind = "ini"
    /\ config.base_url = base_url
    /\ config.model = model
    /\ config.system_prompt = system_prompt
    /\ \A k \in DOMAIN parameters :
           /\ k \in DOMAIN config.parameters
           /\ config.parameters[k] = <<Str(parameters[k])>>

\* C16: every operation that changes the model, the system prompt or a
\* parameter also writes the durable config: once it has completed, the
\* durable config holds the session's endpoint, model, system prompt and
\* parameters.  The changes a load makes are among them.
C16_ConfigFollowsSession ==
    (/\ last.op \in {"set_parameter", "set_model", "load"}
     /\ <<model, system_prompt, parameters>>
            # <<last.pre.session.model, last.pre.session.system_prompt,
                last.pre.session.parameters>>) =>
        ConfigHoldsSession

-----------------------------------------------------------------------------
(* Properties of the log, checked under SpecLog.                           *)

IsPrefix(s, t) == Len(s) <= Len(t) /\ SubSeq(t, 1, Len(s)) = s

\* C15: between two consecutive clear/load operations the log is
\* append-only.  Every step that is not a load or a clear leaves the log of
\* before as a prefix of the log of after: generate, save, rename, the
\* setters remove, reorder and rewrite nothing.
C15_LogAppendOnly ==
    [][\/ IsPrefix(conversation, conversation')
       \/ (last' # last /\ last'.op \in {"load", "clear"})]_vars

\* A log of two exchanges that has been saved, renamed and kept through a
\* change of model.
C15_Witness ==
    /\ Len(conversation) = 2
    /\ last.op = "set_model"
    /\ last.pre.session.conversation = conversation
    /\ chat_name = <<"b">>
    /\ Exists(fs, DataFile(<<"b">>))
    /\ fs[DataFile(<<"b">>)].conversation = <<conversation[1]>>

-----------------------------------------------------------------------------
(* Properties of get_models and check_connection, checked under SpecServer. *)

\* The names of a "models" array whose entries all have one, in order.
NamesOf(reply) == [i \in DOMAIN reply.entries |-> reply.entries[i].name]

\* C18: listModels returns the names of the server's models array in order,
\* and on any failure at all (no connection, error status, body that is not
\* JSON, body without models or with an entry without name) returns the
\* empty sequence and does not raise.
C18_ListModelsNeverRaises ==
    last.op = "get_models" =>
        /\ last.raised = "none"
        /\ last.result =
               IF last.reply.kind = "models"
                      /\ \A i \in DOMAIN last.reply.entries :
                             last.reply.entries[i].has_name
               THEN NamesOf(last.reply)
               ELSE <<>>

\* C19: every checkAvailability call eventually returns a boolean, whatever
\* the server does: refuses the connection, answers with an error status,
\* answers, or accepts the connection and never answers.
C19_ProbeEventuallyReturns ==
    \A t \in 1..MaxProbes :
        (t \in DOMAIN calls /\ calls[t].pc = "probe")
            ~> (/\ t \in DOMAIN calls
                /\ calls[t].pc = "done"
                /\ calls[t].result \in {<<"True">>, <<"False">>})


-----------------------------------------------------------------------------
(* The GUI sending.                                                        *)

Generating == {t \in DOMAIN calls : InFlight(calls[t])}

\* C21: at most one generate call is in flight at any time; no second
\* generation is started, through the Send button or the Return key, while
\* one is running.
C21_OneGenerationInFlight == Cardinality(Generating) <= 1

\* C22: a generate call that is in flight when the session is cleared does
\* not append to the log when it completes.  The step right after a clear
\* in which such a call returns leaves the cleared log as it is.
C22_StaleCallAppendsNothing ==
    [][\A t \in DOMAIN calls :
          (/\ last.op = "clear"
           /\ InFlight(calls[t])
           /\ calls'[t].pc = "returned")
          => conversation' = conversation]_vars

\* The prompts of a sequence of calls or of exchanges, and whether the
\* sequence s can be obtained from t by leaving elements out.
RECURSIVE IsSubsequence(_, _)
IsSubsequence(s, t) ==
    IF s = <<>> THEN TRUE
    ELSE IF t = <<>> THEN FALSE
    ELSE IF Head(s) = Head(t) THEN IsSubsequence(Tail(s), Tail(t))
    ELSE IsSubsequence(s, Tail(t))

\* C25: the exchanges appear in the log in the order in which their prompts
\* were submitted, whatever the order in which the answers complete.
C25_LogInSubmissionOrder ==
    IsSubsequence([i \in DOMAIN conversation |-> conversation[i].user],
                  [t \in DOMAIN calls |-> calls[t].prompt])

\* C26: the Send button is disabled whenever a generation is in flight; the
\* completion of one generation does not enable it while another is in
\* flight.
C26_SendDisabledWhileGenerating ==
    Generating # {} => send_button = "disabled"


-----------------------------------------------------------------------------
(* The endpoint.                                                           *)

\* C23: in every reachable state the generation URL is the base URL
\* followed by /api/generate and the model-list URL is the base URL followed
\* by /api/tags, the base URL being where the liveness probe goes
\* (base_url followed by /api/version): after construction with a durable
\* config that stores another endpoint, and after every endpoint change.
C23_EndpointsFollowBaseUrl ==
    /\ api_generate = base_url \o <<"/api/generate">>
    /\ api_models = base_url \o <<"/api/tags">>


-----------------------------------------------------------------------------
(* The current file path.                                                  *)

\* C24: a Save (not Save As) on a session whose current file path is set
\* writes the session to exactly that path: the path the save reports is
\* the current file path of before, and no file but that one and its
\* transcript is created or changed.  (Equivalently: a current file path
\* that is set is save_dir/<chat name>.json.)
C24_SaveWritesCurrentPath ==
    (/\ last.op = "save"
     /\ last.ok
     /\ last.supplied = None
     /\ last.pre.current_file_path # None)
    => /\ SavedPath = last.pre.current_file_path
       /\ \A path \in (DOMAIN fs \cup DOMAIN last.pre.fs)
                       \ {last.pre.current_file_path,
                          JsonToTxt(last.pre.current_file_path)} :
             /\ path \in DOMAIN fs \cap DOMAIN last.pre.fs
             /\ fs[path] = last.pre.fs[path]


-----------------------------------------------------------------------------
(* The deltas shown and the log.                                           *)

\* C27: every delta passed to the sink during a generate call ends up in
\* the assistant text of the exchange appended for that call, also when the
\* stream breaks with a transport failure after some deltas: a streaming
\* call that has returned after passing some text has appended the exchange
\* of its prompt and of the concatenation of the deltas passed.
C27_DeltasShownAreLogged ==
    \A t \in DOMAIN calls :
        (/\ calls[t].streaming
         /\ calls[t].pc = "returned"
         /\ Concat(calls[t].sink) # EmptyStr)
        => /\ Len(conversation) = calls[t].log0 + 1
           /\ conversation[Len(conversation)]
                  = Exchange(calls[t].prompt, Concat(calls[t].sink))

-----------------------------------------------------------------------------
(* A save that fails.                                                      *)

\* C28: a save that fails while writing the data file or the transcript
\* leaves the in-memory session unchanged: the chat name and the current
\* file path keep the values they had before the call.
C28_FailedSaveLeavesSession ==
    (/\ last.op = "save"
     /\ ~last.ok
     /\ last.pre.session.conversation # <<>>)
    => /\ Session = last.pre.session
       /\ current_file_path = last.pre.current_file_path

====
